---- MODULE Spec2Model ----
(***************************************************************************)
(* Shrink-Sense: risk scoring, decision engine, reallocation matcher and   *)
(* data ingestion of the dashboard, as a state machine over one batch      *)
(* (pandas DataFrame) of inventory rows.                                   *)
(*                                                                         *)
(* Numbers.  Python floats are modelled by exact fixed-point integers:     *)
(*   money (cost_basis, selling_price, reallocation_cost): 1/10000 dollar  *)
(*   sale_through_rate, target_store_sell_through: hundredths              *)
(*   uniform multipliers, distance and category factors: tenths            *)
(*   risk_score: an exact fraction [num, den]                              *)
(* so a comparison decides as exact arithmetic does; the inputs drawn      *)
(* below are ones on which the float computation decides the same way.     *)
(* A DataFrame is a sequence of records; its columns are the record's      *)
(* fields, so adding a column is adding a field.  The informational        *)
(* columns expiry_date, avg_daily_sales, last_week_sales, store_type,      *)
(* store_size and supplier are read by no computation and are left out of  *)
(* the rows; product_name is kept as one fixed name.                       *)
(***************************************************************************)
EXTENDS Integers, Sequences, FiniteSets, TLC

VARIABLES
    pc,       \* position of show_dashboard / process_data
    source,   \* data source selected in the sidebar
    raw,      \* the uploaded CSV content, or the generator's random draws
    df,       \* the DataFrame travelling through the pipeline
    error,    \* the exception caught by show_dashboard, <<>> when none
    calls,    \* history: the functions applied to the batch so far, in order
    call,     \* direct invocation of a pure function: its arguments
    ret       \* direct invocation of a pure function: its result

vars == <<pc, source, raw, df, error, calls, call, ret>>

----------------------------------------------------------------------------
(* Small helpers *)

Max(a, b) == IF a >= b THEN a ELSE b

Min(a, b) == IF a <= b THEN a ELSE b

Range(s) == {s[i] : i \in DOMAIN s}

\* row with the columns of upd added or overwritten (df[col] = ...)
SetCols(row, upd) == upd @@ row

\* df.apply(f, axis=1) style column assignment, row by row
MapRows(d, F(_)) == [i \in DOMAIN d |-> F(d[i])]

----------------------------------------------------------------------------
(* Vocabulary *)

Categories == <<"Fresh Food", "Perishables", "General Goods">>

Stores == <<"Store_A", "Store_B", "Store_C">>

Strategies ==
    {"NO ACTION", "MARKDOWN", "REALLOCATE", "REALLOCATE+MARKDOWN", "DONATE", "LIQUIDATE"}

\* None of Python
None == "None"

\* an amount of whole dollars in money units
Dollars(n) == n * 10000

----------------------------------------------------------------------------
(* logic/risk_calculator.py *)

\* min(100, x) only, without the lower clamp
ClampScore_no_floor(num, den) ==
    [num |-> Min(100 * den, num), den |-> den]

\* min(100, max(0, x)) on a fraction with positive denominator
ClampScore(num, den) ==
    [num |-> Min(100 * den, Max(0, num)), den |-> den]

\* calculate_risk_score with the time urgency taken as days_remaining / shelf
calculate_risk_score_fresh(row) ==
    LET days_remaining == Max(0, row.days_remaining)
        shelf == row.shelf_life_days
        rate == row.sale_through_rate
    IN  IF shelf > 0
        THEN ClampScore(600 * days_remaining + 4 * shelf * (100 - rate),
                        10 * shelf)
        ELSE ClampScore(600 + 4 * (100 - rate), 10)

\* ((time_urgency * 0.6) + (sales_problem * 0.4)) * 100, exactly:
\*   shelf > 0: 60*(shelf-d)/shelf + 40*(100-rate)/100
\*   otherwise: 60 + 40*(100-rate)/100
calculate_risk_score(row) ==
    LET days_remaining == Max(0, row.days_remaining)
        shelf == row.shelf_life_days
        rate == row.sale_through_rate
    IN  IF shelf > 0
        THEN ClampScore(600 * (shelf - days_remaining) + 4 * shelf * (100 - rate),
                        10 * shelf)
        ELSE ClampScore(600 + 4 * (100 - rate), 10)

\* risk_score <= k
ScoreLeq(score, k) == score.num <= k * score.den

get_risk_level(risk_score) ==
    IF ScoreLeq(risk_score, 40) THEN "LOW"
    ELSE IF ScoreLeq(risk_score, 60) THEN "MEDIUM"
    ELSE IF ScoreLeq(risk_score, 80) THEN "HIGH"
    ELSE "CRITICAL"

calculate_time_to_action(risk_score) ==
    IF ScoreLeq(risk_score, 40) THEN "7+ days"
    ELSE IF ScoreLeq(risk_score, 60) THEN "3-7 days"
    ELSE IF ScoreLeq(risk_score, 80) THEN "1-3 days"
    ELSE "0-24 hours"

add_risk_calculations(d) ==
    LET Score(row) == SetCols(row, [risk_score |-> calculate_risk_score(row)])
        Level(row) == SetCols(row, [risk_level |-> get_risk_level(row.risk_score)])
        Time(row) == SetCols(row, [time_to_action |-> calculate_time_to_action(row.risk_score)])
    IN  MapRows(MapRows(MapRows(d, Score), Level), Time)

----------------------------------------------------------------------------
(* logic/decision_engine.py *)

\* get_risk_level_from_score with exclusive upper bounds
get_risk_level_from_score_exclusive(risk_score) ==
    IF risk_score.num < 40 * risk_score.den THEN "LOW"
    ELSE IF risk_score.num < 60 * risk_score.den THEN "MEDIUM"
    ELSE IF risk_score.num < 80 * risk_score.den THEN "HIGH"
    ELSE "CRITICAL"

get_risk_level_from_score(risk_score) ==
    IF ScoreLeq(risk_score, 40) THEN "LOW"
    ELSE IF ScoreLeq(risk_score, 60) THEN "MEDIUM"
    ELSE IF ScoreLeq(risk_score, 80) THEN "HIGH"
    ELSE "CRITICAL"

\* lines 11-18: the CRITICAL branch
critical_strategy(category, can_reallocate, can_donate, days_remaining) ==
    IF category = "Fresh Food"
    THEN IF can_donate /\ days_remaining >= 1 THEN "DONATE" ELSE "LIQUIDATE"
    ELSE "LIQUIDATE"

\* the HIGH branch with the combined strategy of other categories starting a
\* day late
high_strategy_late(category, can_reallocate, can_donate, days_remaining) ==
    IF category = "Fresh Food"
    THEN IF can_donate /\ days_remaining >= 2 THEN "DONATE"
         ELSE IF can_reallocate /\ days_remaining >= 3 THEN "REALLOCATE+MARKDOWN"
         ELSE "MARKDOWN"
    ELSE IF can_reallocate /\ days_remaining > 4 THEN "REALLOCATE+MARKDOWN"
         ELSE IF can_reallocate THEN "REALLOCATE"
         ELSE "MARKDOWN"

\* lines 21-35: the HIGH branch
high_strategy(category, can_reallocate, can_donate, days_remaining) ==
    IF category = "Fresh Food"
    THEN IF can_donate /\ days_remaining >= 2 THEN "DONATE"
         ELSE IF can_reallocate /\ days_remaining >= 3 THEN "REALLOCATE+MARKDOWN"
         ELSE "MARKDOWN"
    ELSE IF can_reallocate /\ days_remaining >= 4 THEN "REALLOCATE+MARKDOWN"
         ELSE IF can_reallocate THEN "REALLOCATE"
         ELSE "MARKDOWN"

\* lines 38-46: the MEDIUM branch
medium_strategy(category, can_reallocate, can_donate, days_remaining) ==
    IF can_reallocate /\ days_remaining >= 5 THEN "REALLOCATE+MARKDOWN"
    ELSE IF can_reallocate THEN "REALLOCATE"
    ELSE IF can_donate /\ category \in {"Fresh Food", "Perishables"} /\ days_remaining >= 3
    THEN "DONATE"
    ELSE "MARKDOWN"

\* get_primary_strategy without its final else: a LOW item falls off the end
\* of the function, which returns None
get_primary_strategy_no_else(risk_score, category, can_reallocate, can_donate, days_remaining) ==
    LET risk_level == get_risk_level_from_score(risk_score)
    IN  IF risk_level = "CRITICAL"
        THEN critical_strategy(category, can_reallocate, can_donate, days_remaining)
        ELSE IF risk_level = "HIGH"
        THEN high_strategy(category, can_reallocate, can_donate, days_remaining)
        ELSE IF risk_level = "MEDIUM"
        THEN medium_strategy(category, can_reallocate, can_donate, days_remaining)
        ELSE None

\* get_primary_strategy moving a reallocatable LOW item
get_primary_strategy_low_reallocate(risk_score, category, can_reallocate, can_donate, days_remaining) ==
    LET risk_level == get_risk_level_from_score(risk_score)
    IN  IF risk_level = "CRITICAL"
        THEN critical_strategy(category, can_reallocate, can_donate, days_remaining)
        ELSE IF risk_level = "HIGH"
        THEN high_strategy(category, can_reallocate, can_donate, days_remaining)
        ELSE IF risk_level = "MEDIUM"
        THEN medium_strategy(category, can_reallocate, can_donate, days_remaining)
        ELSE IF can_reallocate THEN "REALLOCATE"
        ELSE "NO ACTION"

get_primary_strategy(risk_score, category, can_reallocate, can_donate, days_remaining) ==
    LET risk_level == get_risk_level_from_score(risk_score)
    IN  IF risk_level = "CRITICAL"
        THEN critical_strategy(category, can_reallocate, can_donate, days_remaining)
        ELSE IF risk_level = "HIGH"
        THEN high_strategy(category, can_reallocate, can_donate, days_remaining)
        ELSE IF risk_level = "MEDIUM"
        THEN medium_strategy(category, can_reallocate, can_donate, days_remaining)
        ELSE "NO ACTION"

\* " | ".join(options) if options else "None": the joined string is modelled
\* by the sequence of its entries, the string "None" by <<None>>
JoinOptions(options) == IF options # <<>> THEN options ELSE <<None>>

\* get_secondary_options not offering LIQUIDATE next to a MARKDOWN primary
get_secondary_options_exclusive(risk_score, category, can_reallocate, can_donate, primary_strategy, days_remaining) ==
    LET o1 == IF primary_strategy # "REALLOCATE" /\ can_reallocate
              THEN <<"REALLOCATE">> ELSE <<>>
        o2 == IF primary_strategy # "DONATE" /\ can_donate
                 /\ category \in {"Fresh Food", "Perishables"} /\ days_remaining >= 1
              THEN Append(o1, "DONATE") ELSE o1
        o3 == IF primary_strategy # "MARKDOWN" THEN Append(o2, "MARKDOWN") ELSE o2
        o4 == IF primary_strategy \notin {"LIQUIDATE", "MARKDOWN"}
              THEN Append(o3, "LIQUIDATE") ELSE o3
    IN  JoinOptions(o4)

\* get_secondary_options offering MARKDOWN even when it is the primary
get_secondary_options_markdown(risk_score, category, can_reallocate, can_donate, primary_strategy, days_remaining) ==
    LET o1 == IF primary_strategy # "REALLOCATE" /\ can_reallocate
              THEN <<"REALLOCATE">> ELSE <<>>
        o2 == IF primary_strategy # "DONATE" /\ can_donate
                 /\ category \in {"Fresh Food", "Perishables"} /\ days_remaining >= 1
              THEN Append(o1, "DONATE") ELSE o1
        o3 == Append(o2, "MARKDOWN")
        o4 == IF primary_strategy # "LIQUIDATE" THEN Append(o3, "LIQUIDATE") ELSE o3
    IN  JoinOptions(o4)

get_secondary_options(risk_score, category, can_reallocate, can_donate, primary_strategy, days_remaining) ==
    LET o1 == IF primary_strategy # "REALLOCATE" /\ can_reallocate
              THEN <<"REALLOCATE">> ELSE <<>>
        o2 == IF primary_strategy # "DONATE" /\ can_donate
                 /\ category \in {"Fresh Food", "Perishables"} /\ days_remaining >= 1
              THEN Append(o1, "DONATE") ELSE o1
        o3 == IF primary_strategy # "MARKDOWN" THEN Append(o2, "MARKDOWN") ELSE o2
        o4 == IF primary_strategy # "LIQUIDATE" THEN Append(o3, "LIQUIDATE") ELSE o3
    IN  JoinOptions(o4)

\* can_donate_item asking for more than one day
can_donate_item_late(category, days_remaining, cost_basis) ==
    IF category \notin {"Fresh Food", "Perishables"} THEN FALSE
    ELSE IF days_remaining <= 1 THEN FALSE
    ELSE IF cost_basis < Dollars(1) THEN FALSE
    ELSE TRUE

can_donate_item(category, days_remaining, cost_basis) ==
    IF category \notin {"Fresh Food", "Perishables"} THEN FALSE
    ELSE IF days_remaining < 1 THEN FALSE
    ELSE IF cost_basis < Dollars(1) THEN FALSE
    ELSE TRUE

add_decision_logic(d) ==
    LET Donate(row) ==
            SetCols(row, [can_donate |->
                can_donate_item(row.category, row.days_remaining, row.cost_basis)])
        Realloc(row) == SetCols(row, [can_reallocate |-> FALSE])
        Primary(row) ==
            SetCols(row, [primary_recommendation |->
                get_primary_strategy(row.risk_score, row.category, row.can_reallocate,
                                     row.can_donate, row.days_remaining)])
        Secondary(row) ==
            SetCols(row, [secondary_options |->
                get_secondary_options(row.risk_score, row.category, row.can_reallocate,
                                      row.can_donate, row.primary_recommendation,
                                      row.days_remaining)])
    IN  MapRows(MapRows(MapRows(MapRows(d, Donate), Realloc), Primary), Secondary)

----------------------------------------------------------------------------
(* logic/reallocation.py *)

\* store_capabilities[store], a missing key never being looked up
store_capabilities(store) ==
    IF store = "Store_A" THEN {"Fresh Food", "Perishables", "General Goods"}
    ELSE IF store = "Store_B" THEN {"Perishables", "General Goods"}
    ELSE IF store = "Store_C" THEN {"General Goods"}
    ELSE {}

\* find_best_reallocation_store with the priority order reversed
find_best_reallocation_store_reversed(row) ==
    LET current_store == row.store_location
        category == row.category
        NotCurrent(store) == store # current_store
        available_stores == SelectSeq(Stores, NotCurrent)
        Accepts(store) == category \in store_capabilities(store)
        compatible_stores == SelectSeq(available_stores, Accepts)
        priority_order == <<"Store_C", "Store_B", "Store_A">>
        InCompatible(store) == store \in Range(compatible_stores)
        hits == SelectSeq(priority_order, InCompatible)
    IN  IF compatible_stores = <<>> THEN None
        ELSE IF hits # <<>> THEN hits[1]
        ELSE compatible_stores[1]

find_best_reallocation_store(row) ==
    LET current_store == row.store_location
        category == row.category
        NotCurrent(store) == store # current_store
        available_stores == SelectSeq(Stores, NotCurrent)
        Accepts(store) == category \in store_capabilities(store)
        compatible_stores == SelectSeq(available_stores, Accepts)
        priority_order == <<"Store_A", "Store_B", "Store_C">>
        InCompatible(store) == store \in Range(compatible_stores)
        hits == SelectSeq(priority_order, InCompatible)
    IN  IF compatible_stores = <<>> THEN None
        ELSE IF hits # <<>> THEN hits[1]
        ELSE compatible_stores[1]

\* 0.50 dollar
base_cost_per_unit == Dollars(1) \div 2

\* distance_factors with the Store_B to Store_A entry mistyped
distance_factor_mistyped(current_store, target_store) ==
    LET pair == <<current_store, target_store>>
    IN  IF pair = <<"Store_A", "Store_B">> THEN 12
        ELSE IF pair = <<"Store_A", "Store_C">> THEN 15
        ELSE IF pair = <<"Store_B", "Store_A">> THEN 13
        ELSE IF pair = <<"Store_B", "Store_C">> THEN 13
        ELSE IF pair = <<"Store_C", "Store_A">> THEN 15
        ELSE IF pair = <<"Store_C", "Store_B">> THEN 13
        ELSE 10

\* distance_factors.get((current_store, target_store), 1.0), in tenths
distance_factor(current_store, target_store) ==
    LET pair == <<current_store, target_store>>
    IN  IF pair = <<"Store_A", "Store_B">> THEN 12
        ELSE IF pair = <<"Store_A", "Store_C">> THEN 15
        ELSE IF pair = <<"Store_B", "Store_A">> THEN 12
        ELSE IF pair = <<"Store_B", "Store_C">> THEN 13
        ELSE IF pair = <<"Store_C", "Store_A">> THEN 15
        ELSE IF pair = <<"Store_C", "Store_B">> THEN 13
        ELSE 10

\* category_factors.get(category, 1.0), in tenths
category_factor(category) ==
    IF category = "Fresh Food" THEN 15
    ELSE IF category = "Perishables" THEN 12
    ELSE IF category = "General Goods" THEN 10
    ELSE 10

\* base_cost_per_unit * distance_factor * category_factor * quantity, in money
\* units (the two factors are tenths, and half a dollar is a multiple of 100)
calculate_reallocation_cost(row, target_store) ==
    LET cost_per_unit100 == base_cost_per_unit
                              * distance_factor(row.store_location, target_store)
                              * category_factor(row.category)
    IN  (cost_per_unit100 \div 100) * row.quantity

\* get_store_sell_through_rate on a table without the Store_B row
get_store_sell_through_rate_sparse(category, store) ==
    IF store = "Store_A" /\ category = "Fresh Food" THEN 85
    ELSE IF store = "Store_A" /\ category = "Perishables" THEN 80
    ELSE IF store = "Store_A" /\ category = "General Goods" THEN 75
    ELSE IF store = "Store_C" /\ category = "Fresh Food" THEN 60
    ELSE IF store = "Store_C" /\ category = "Perishables" THEN 65
    ELSE IF store = "Store_C" /\ category = "General Goods" THEN 85
    ELSE 70

\* store_performance.get(store, {}).get(category, 0.70), in hundredths
get_store_sell_through_rate(category, store) ==
    IF store = "Store_A" /\ category = "Fresh Food" THEN 85
    ELSE IF store = "Store_A" /\ category = "Perishables" THEN 80
    ELSE IF store = "Store_A" /\ category = "General Goods" THEN 75
    ELSE IF store = "Store_B" /\ category = "Fresh Food" THEN 70
    ELSE IF store = "Store_B" /\ category = "Perishables" THEN 75
    ELSE IF store = "Store_B" /\ category = "General Goods" THEN 80
    ELSE IF store = "Store_C" /\ category = "Fresh Food" THEN 60
    ELSE IF store = "Store_C" /\ category = "Perishables" THEN 65
    ELSE IF store = "Store_C" /\ category = "General Goods" THEN 85
    ELSE 70

\* check_reallocation_viability rejecting a batch of exactly 5 units
check_reallocation_viability_strict(row) ==
    IF row.days_remaining < 3 THEN <<FALSE, None, 0, 0>>
    ELSE IF row.quantity <= 5 THEN <<FALSE, None, 0, 0>>
    ELSE IF row.category = "Fresh Food" /\ row.days_remaining < 2 THEN <<FALSE, None, 0, 0>>
    ELSE LET best_store == find_best_reallocation_store(row)
         IN  IF best_store = None THEN <<FALSE, None, 0, 0>>
             ELSE <<TRUE, best_store,
                    calculate_reallocation_cost(row, best_store),
                    get_store_sell_through_rate(row.category, best_store)>>

\* check_reallocation_viability accepting lots of 4 units
check_reallocation_viability_small_lots(row) ==
    IF row.days_remaining < 3 THEN <<FALSE, None, 0, 0>>
    ELSE IF row.quantity < 4 THEN <<FALSE, None, 0, 0>>
    ELSE IF row.category = "Fresh Food" /\ row.days_remaining < 2 THEN <<FALSE, None, 0, 0>>
    ELSE LET best_store == find_best_reallocation_store(row)
         IN  IF best_store = None THEN <<FALSE, None, 0, 0>>
             ELSE <<TRUE, best_store,
                    calculate_reallocation_cost(row, best_store),
                    get_store_sell_through_rate(row.category, best_store)>>

\* check_reallocation_viability with a transport gate of one day
check_reallocation_viability_one_day(row) ==
    IF row.days_remaining < 1 THEN <<FALSE, None, 0, 0>>
    ELSE IF row.quantity < 5 THEN <<FALSE, None, 0, 0>>
    ELSE IF row.category = "Fresh Food" /\ row.days_remaining < 2 THEN <<FALSE, None, 0, 0>>
    ELSE LET best_store == find_best_reallocation_store(row)
         IN  IF best_store = None THEN <<FALSE, None, 0, 0>>
             ELSE <<TRUE, best_store,
                    calculate_reallocation_cost(row, best_store),
                    get_store_sell_through_rate(row.category, best_store)>>

\* the tuple (can_reallocate, store, cost, sell-through)
check_reallocation_viability(row) ==
    IF row.days_remaining < 3 THEN <<FALSE, None, 0, 0>>
    ELSE IF row.quantity < 5 THEN <<FALSE, None, 0, 0>>
    ELSE IF row.category = "Fresh Food" /\ row.days_remaining < 2 THEN <<FALSE, None, 0, 0>>
    ELSE LET best_store == find_best_reallocation_store(row)
         IN  IF best_store = None THEN <<FALSE, None, 0, 0>>
             ELSE <<TRUE, best_store,
                    calculate_reallocation_cost(row, best_store),
                    get_store_sell_through_rate(row.category, best_store)>>

\* get_updated_primary_strategy keeping the first-pass recommendation
get_updated_primary_strategy_stale(row) == row.primary_recommendation

get_updated_primary_strategy(row) ==
    get_primary_strategy(row.risk_score, row.category, row.can_reallocate,
                         row.can_donate, row.days_remaining)

\* add_reallocation_details giving every row the matcher's verdict on the
\* first row
add_reallocation_details_first(d) ==
    LET Details(row) ==
            LET reallocation_data == check_reallocation_viability(d[1])
            IN  SetCols(row, [can_reallocate |-> reallocation_data[1],
                              reallocation_store |-> reallocation_data[2],
                              reallocation_cost |-> reallocation_data[3],
                              target_store_sell_through |-> reallocation_data[4]])
        Primary(row) ==
            SetCols(row, [primary_recommendation |-> get_updated_primary_strategy(row)])
    IN  MapRows(MapRows(d, Details), Primary)

add_reallocation_details(d) ==
    LET Details(row) ==
            LET reallocation_data == check_reallocation_viability(row)
            IN  SetCols(row, [can_reallocate |-> reallocation_data[1],
                              reallocation_store |-> reallocation_data[2],
                              reallocation_cost |-> reallocation_data[3],
                              target_store_sell_through |-> reallocation_data[4]])
        Primary(row) ==
            SetCols(row, [primary_recommendation |-> get_updated_primary_strategy(row)])
    IN  MapRows(MapRows(d, Details), Primary)

----------------------------------------------------------------------------
(* logic/financial.py *)

\* Amounts computed here are in recovery units of 1/400000 dollar, the
\* coarsest unit in which every branch below is exact; a money unit is 40 of
\* them.  selling_price is a whole number of cents (round(2) at ingestion) and
\* target_store_sell_through a multiple of 0.05.

\* risk_score >= k
ScoreGeq(score, k) == score.num >= k * score.den

\* row.get(column, default)
Get(row, column, default) == IF column \in DOMAIN row THEN row[column] ELSE default

\* get_markdown_percentage with exclusive lower bounds
get_markdown_percentage_exclusive(risk_score) ==
    IF ~ScoreLeq(risk_score, 80) THEN 30
    ELSE IF ~ScoreLeq(risk_score, 60) THEN 25
    ELSE IF ~ScoreLeq(risk_score, 40) THEN 15
    ELSE 0

get_markdown_percentage(risk_score) ==
    IF ScoreGeq(risk_score, 80) THEN 30
    ELSE IF ScoreGeq(risk_score, 60) THEN 25
    ELSE IF ScoreGeq(risk_score, 40) THEN 15
    ELSE 0

\* calculate_expected_recovery charging the whole transport cost to the
\* combined strategy
calculate_expected_recovery_full_transport(row) ==
    LET strategy == row.primary_recommendation
        cents == row.selling_price \div 100
        cost_basis == row.cost_basis
        quantity == row.quantity
    IN  IF strategy = "NO ACTION"
        THEN 40 * (quantity * row.sale_through_rate) * cents
               + 4 * (quantity * (100 - row.sale_through_rate)) * cents
        ELSE IF strategy = "REALLOCATE"
        THEN 190 * cents * quantity * (Get(row, "target_store_sell_through", 80) \div 5)
               - 40 * Get(row, "reallocation_cost", 0)
        ELSE IF strategy = "MARKDOWN"
        THEN 40 * (cents * (100 - get_markdown_percentage(row.risk_score))) * quantity
        ELSE IF strategy = "REALLOCATE+MARKDOWN"
        THEN (133 * cents * quantity * (Get(row, "target_store_sell_through", 80) \div 5)
                - 40 * Get(row, "reallocation_cost", 0))
               + 12 * (cents * (100 - get_markdown_percentage(row.risk_score))) * quantity
        ELSE IF strategy = "DONATE"
        THEN 12 * cost_basis * quantity
        ELSE IF strategy = "LIQUIDATE"
        THEN 1200 * cents * quantity
        ELSE 0

calculate_expected_recovery(row) ==
    LET strategy == row.primary_recommendation
        cents == row.selling_price \div 100
        cost_basis == row.cost_basis
        quantity == row.quantity
    IN  IF strategy = "NO ACTION"
        THEN \* sold_quantity * selling_price + unsold_quantity * selling_price * 0.10
             40 * (quantity * row.sale_through_rate) * cents
               + 4 * (quantity * (100 - row.sale_through_rate)) * cents
        ELSE IF strategy = "REALLOCATE"
        THEN \* selling_price * 0.95 * quantity * target_sell_through - transport_cost
             190 * cents * quantity * (Get(row, "target_store_sell_through", 80) \div 5)
               - 40 * Get(row, "reallocation_cost", 0)
        ELSE IF strategy = "MARKDOWN"
        THEN \* selling_price * (1 - markdown_pct/100) * quantity
             40 * (cents * (100 - get_markdown_percentage(row.risk_score))) * quantity
        ELSE IF strategy = "REALLOCATE+MARKDOWN"
        THEN \* the reallocation on 0.7 of the quantity with 0.7 of the transport
             \* cost, plus the markdown on 0.3 of the quantity
             (133 * cents * quantity * (Get(row, "target_store_sell_through", 80) \div 5)
                - 28 * Get(row, "reallocation_cost", 0))
               + 12 * (cents * (100 - get_markdown_percentage(row.risk_score))) * quantity
        ELSE IF strategy = "DONATE"
        THEN \* cost_basis * 0.30 * quantity
             12 * cost_basis * quantity
        ELSE IF strategy = "LIQUIDATE"
        THEN \* selling_price * 0.30 * quantity
             1200 * cents * quantity
        ELSE 0

\* cost_basis * quantity * (1 - sale_through_rate)
calculate_potential_loss(row) ==
    (2 * row.cost_basis * row.quantity * (100 - row.sale_through_rate)) \div 5

\* calculate_margin_impact charging the whole transport cost to the combined
\* strategy
calculate_margin_impact_full_transport(row) ==
    LET total_cost == 40 * row.cost_basis * row.quantity
        transport_cost ==
            IF row.primary_recommendation \in {"REALLOCATE", "REALLOCATE+MARKDOWN"}
            THEN 40 * Get(row, "reallocation_cost", 0)
            ELSE 0
    IN  row.expected_recovery - (total_cost + transport_cost)

calculate_margin_impact(row) ==
    LET total_cost == 40 * row.cost_basis * row.quantity
        transport_cost ==
            IF row.primary_recommendation = "REALLOCATE"
            THEN 40 * Get(row, "reallocation_cost", 0)
            ELSE IF row.primary_recommendation = "REALLOCATE+MARKDOWN"
            THEN 28 * Get(row, "reallocation_cost", 0)
            ELSE 0
    IN  row.expected_recovery - (total_cost + transport_cost)

\* calculate_profit_margin_percentage leaving the transport cost out
calculate_profit_margin_percentage_no_transport(row) ==
    IF row.expected_recovery = 0 THEN [num |-> 0, den |-> 1]
    ELSE [num |-> row.expected_recovery - 40 * row.cost_basis * row.quantity,
          den |-> row.expected_recovery]

\* the percentage is kept as the fraction num/den of 100 percent
calculate_profit_margin_percentage(row) ==
    IF row.expected_recovery = 0 THEN [num |-> 0, den |-> 1]
    ELSE LET total_cost == 40 * row.cost_basis * row.quantity
             transport_cost ==
                 IF row.primary_recommendation = "REALLOCATE"
                 THEN 40 * Get(row, "reallocation_cost", 0)
                 ELSE IF row.primary_recommendation = "REALLOCATE+MARKDOWN"
                 THEN 28 * Get(row, "reallocation_cost", 0)
                 ELSE 0
         IN  [num |-> row.expected_recovery - (total_cost + transport_cost),
              den |-> row.expected_recovery]

\* add_financial_calculations returning the rows in reverse order
add_financial_calculations_reversed(d) ==
    LET Recovery(row) == SetCols(row, [expected_recovery |-> calculate_expected_recovery(row)])
        Loss(row) == SetCols(row, [potential_loss |-> calculate_potential_loss(row)])
        Margin(row) == SetCols(row, [margin_impact |-> calculate_margin_impact(row)])
        Percent(row) ==
            SetCols(row, [profit_margin_pct |-> calculate_profit_margin_percentage(row)])
        Markdown(row) ==
            SetCols(row, [markdown_percentage |-> get_markdown_percentage(row.risk_score)])
        out == MapRows(MapRows(MapRows(MapRows(MapRows(d, Recovery), Loss), Margin), Percent),
                       Markdown)
    IN  [i \in DOMAIN out |-> out[Len(out) + 1 - i]]

add_financial_calculations(d) ==
    LET Recovery(row) == SetCols(row, [expected_recovery |-> calculate_expected_recovery(row)])
        Loss(row) == SetCols(row, [potential_loss |-> calculate_potential_loss(row)])
        Margin(row) == SetCols(row, [margin_impact |-> calculate_margin_impact(row)])
        Percent(row) ==
            SetCols(row, [profit_margin_pct |-> calculate_profit_margin_percentage(row)])
        Markdown(row) ==
            SetCols(row, [markdown_percentage |-> get_markdown_percentage(row.risk_score)])
    IN  MapRows(MapRows(MapRows(MapRows(MapRows(d, Recovery), Loss), Margin), Percent),
                Markdown)

----------------------------------------------------------------------------
(* main.py: process_data *)

process_data(d) ==
    add_financial_calculations(add_reallocation_details(add_decision_logic(
        add_risk_calculations(d))))

----------------------------------------------------------------------------
(* data/sample_data.py *)

\* round(x, 2) on money units, ties to even
Round2(x) ==
    LET q == x \div 100
        r == x % 100
    IN  100 * (IF r > 50 \/ (r = 50 /\ q % 2 = 1) THEN q + 1 ELSE q)

\* categories[category]['shelf_life_range']
shelf_life_range(category) ==
    IF category = "Fresh Food" THEN <<1, 7>>
    ELSE IF category = "Perishables" THEN <<5, 30>>
    ELSE <<30, 365>>

\* categories[category]['cost_range'], in dollars
cost_range(category) ==
    IF category = "Fresh Food" THEN <<2, 12>>
    ELSE IF category = "Perishables" THEN <<2, 18>>
    ELSE <<3, 50>>

\* categories[category]['margin_multiplier'], in tenths
margin_multiplier(category) ==
    IF category = "Fresh Food" THEN <<14, 22>>
    ELSE IF category = "Perishables" THEN <<15, 25>>
    ELSE <<13, 20>>

risk_levels == <<"LOW", "MEDIUM", "HIGH", "CRITICAL">>

\* the randint bounds of current_age for a target risk; int(shelf * 0.3) is
\* the floor of the product
current_age_range(target_risk, shelf_life) ==
    IF target_risk = "LOW" THEN <<0, (shelf_life * 3) \div 10>>
    ELSE IF target_risk = "MEDIUM" THEN <<(shelf_life * 3) \div 10, (shelf_life * 6) \div 10>>
    ELSE IF target_risk = "HIGH" THEN <<(shelf_life * 6) \div 10, (shelf_life * 8) \div 10>>
    ELSE <<(shelf_life * 8) \div 10, shelf_life - 1>>

\* the uniform bounds of sale_through_rate for a target risk, in hundredths
sale_through_range(target_risk) ==
    IF target_risk = "LOW" THEN <<65, 95>>
    ELSE IF target_risk = "MEDIUM" THEN <<45, 65>>
    ELSE IF target_risk = "HIGH" THEN <<25, 45>>
    ELSE <<5, 25>>

\* quantity = random.randint(5, 100)
quantity_range == <<5, 100>>

\* one row of generate_sample_data from the random draws made for it
generate_row(draw, item_id) ==
    [sku |-> <<draw.category, item_id>>,
     product_name |-> draw.product_name,
     category |-> draw.category,
     quantity |-> draw.quantity,
     cost_basis |-> draw.cost_basis,
     selling_price |-> Round2((draw.cost_basis * draw.margin_multiplier) \div 10),
     shelf_life_days |-> draw.shelf_life,
     current_age_days |-> draw.current_age,
     days_remaining |-> Max(0, draw.shelf_life - draw.current_age),
     sale_through_rate |-> draw.sale_through_rate,
     store_location |-> draw.store_location]

generate_sample_data(draws) == [i \in DOMAIN draws |-> generate_row(draws[i], i)]

\* rows selected by a boolean mask
MaskOf(d, Test(_)) == {i \in DOMAIN d : Test(d[i])}

\* mask = df['selling_price'] <= df['cost_basis']
below_cost(row) == row.selling_price <= row.cost_basis

\* lines 150-153: rows priced at or below cost are resampled, and when there
\* is one the whole selling_price column is rounded; u1 holds one uniform draw
\* (a multiplier in tenths) for every row of the mask
fix_below_cost(d, u1) ==
    LET mask == MaskOf(d, below_cost)
        resampled == [i \in DOMAIN d |->
            IF i \in mask
            THEN SetCols(d[i], [selling_price |-> (d[i].cost_basis * u1[i]) \div 10])
            ELSE d[i]]
        Rounded(row) == SetCols(row, [selling_price |-> Round2(row.selling_price)])
    IN  IF mask # {} THEN MapRows(resampled, Rounded) ELSE d

\* gross_margin > 0.7, for a positive selling price
margin_high(row) == 10 * (row.selling_price - row.cost_basis) > 7 * row.selling_price

\* gross_margin < 0.1, for a positive selling price
margin_low(row) == 10 * (row.selling_price - row.cost_basis) < row.selling_price

\* lines 156-171: margins above 70% or below 10% are resampled, then the whole
\* selling_price column is rounded; gross_margin is dropped again
fix_margins(d, u2, u3) ==
    LET mask_high == MaskOf(d, margin_high)
        mask_low == MaskOf(d, margin_low)
        high == [i \in DOMAIN d |->
            IF i \in mask_high
            THEN SetCols(d[i], [selling_price |-> (d[i].cost_basis * u2[i]) \div 10])
            ELSE d[i]]
        low == [i \in DOMAIN d |->
            IF i \in mask_low
            THEN SetCols(high[i], [selling_price |-> (d[i].cost_basis * u3[i]) \div 10])
            ELSE high[i]]
        Rounded(row) == SetCols(row, [selling_price |-> Round2(row.selling_price)])
    IN  MapRows(low, Rounded)

\* u1, u2, u3: the np.random.uniform draws of the three resamplings
ensure_realistic_financials(d, u1, u2, u3) == fix_margins(fix_below_cost(d, u1), u2, u3)

\* the generator followed by the normalization; main.py imports and calls
\* generate_sample_data instead, so no action uses it
generate_sample_data_with_validation(draws, u1, u2, u3) ==
    ensure_realistic_financials(generate_sample_data(draws), u1, u2, u3)

\* np.random.uniform(1.3, 2.0), (1.3, 1.7) and (1.4, 2.0), in tenths
uniform_below_cost == 13..20

uniform_high == 13..17

uniform_low == 14..20

required_columns ==
    <<"sku", "product_name", "category", "quantity", "cost_basis", "selling_price",
      "shelf_life_days", "current_age_days", "sale_through_rate">>

\* the columns of a DataFrame (of at least one row)
Columns(d) == DOMAIN d[1]

\* missing_columns stopping at the first mandatory column not found
missing_columns_first(d) ==
    LET Missing(col) == col \notin Columns(d)
        all == SelectSeq(required_columns, Missing)
    IN  IF all = <<>> THEN <<>> ELSE <<all[1]>>

missing_columns(d) ==
    LET Missing(col) == col \notin Columns(d)
    IN  SelectSeq(required_columns, Missing)

\* lines 187-198 of validate_csv_data: the derived fields and the defaults
derive_fields(d) ==
    LET Days(row) ==
            SetCols(row, [days_remaining |-> row.shelf_life_days - row.current_age_days])
        Store(row) ==
            IF "store_location" \notin DOMAIN row
            THEN SetCols(row, [store_location |-> "Store_A"])
            ELSE row
    IN  MapRows(MapRows(d, Days), Store)

----------------------------------------------------------------------------
(* Inputs *)

\* longest shelf life of an uploaded row
MaxShelf == 10

\* how far an uploaded row's age may exceed its shelf life
MaxOverAge == 2

\* largest quantity of an uploaded row
MaxQuantity == 5

\* largest days_remaining passed to a direct call of the decision function
MaxDays == 6

Restrict(row, cols) == [c \in cols |-> row[c]]

\* uploaded rows with every column; days_remaining is a stale value the file
\* carries, store_location a known store or one the tables do not list
CsvRows ==
    {[sku |-> <<"SKU", 1>>, product_name |-> "Item", category |-> c, quantity |-> q,
      cost_basis |-> cb, selling_price |-> (3 * cb) \div 2, shelf_life_days |-> sl,
      current_age_days |-> age, sale_through_rate |-> r, store_location |-> st,
      days_remaining |-> sl] :
        c \in Range(Categories), q \in 4..MaxQuantity, cb \in {Dollars(1) \div 2, Dollars(1)},
        sl \in {0, MaxShelf}, age \in 0..(MaxShelf + MaxOverAge),
        r \in {0, 30, 50, 100}, st \in Range(Stores) \cup {"Store_D"}}

OptionalColumns == {"store_location", "days_remaining"}

\* the column sets an uploaded file may have: all mandatory columns with any
\* of the optional ones, or some mandatory columns missing
CsvColumnSets ==
    {Range(required_columns) \cup opt : opt \in SUBSET OptionalColumns}
    \cup {(Range(required_columns) \ {"quantity"}) \cup OptionalColumns,
          Range(required_columns) \ {"sku", "selling_price"}}

\* rows of a two-row upload: a full lot of 1.00 items, fresh, half way or at
\* the end of the shelf life, selling not at all or entirely
BatchRows ==
    {r \in CsvRows :
        /\ r.quantity = MaxQuantity
        /\ r.cost_basis = Dollars(1)
        /\ r.shelf_life_days = MaxShelf
        /\ r.current_age_days \in {0, 5, MaxShelf}
        /\ r.sale_through_rate \in {0, 100}
        /\ r.store_location \in {"Store_A", "Store_C"}}

\* two-row uploaded files with the mandatory columns and store_location
BatchFiles ==
    LET cols == Range(required_columns) \cup {"store_location"}
    IN  {<<Restrict(r1, cols), [Restrict(r2, cols) EXCEPT !.sku = <<"SKU", 2>>]>> :
            r1 \in BatchRows, r2 \in BatchRows}

\* one-row uploaded files
CsvFiles ==
    {<<Restrict(row, cols)>> :
        row \in {r \in CsvRows : r.current_age_days <= r.shelf_life_days + MaxOverAge},
        cols \in CsvColumnSets}

\* the random draws generate_sample_data makes for one row of a category and
\* target risk, each at an end of its range
GenDrawsFor(c, t) ==
    UNION {{[category |-> c, product_name |-> "Item", target_risk |-> t, shelf_life |-> sl,
             current_age |-> age, sale_through_rate |-> r,
             cost_basis |-> Dollars(cost_range(c)[1]),
             margin_multiplier |-> margin_multiplier(c)[1],
             quantity |-> q, store_location |-> st] :
                age \in Range(current_age_range(t, sl)),
                r \in Range(sale_through_range(t)),
                q \in Range(quantity_range), st \in Range(Stores)} :
           sl \in Range(shelf_life_range(c))}

\* one-row generator runs
GenRuns == UNION {{<<d>> : d \in GenDrawsFor(c, t)} : c \in Range(Categories), t \in Range(risk_levels)}

\* the arguments of a direct call of get_primary_strategy
DecisionCalls ==
    [fn : {"get_primary_strategy"},
     risk_score : {[num |-> k, den |-> 1] : k \in {0, 40, 41, 60, 61, 80, 81, 100}},
     category : Range(Categories), can_reallocate : BOOLEAN, can_donate : BOOLEAN,
     days_remaining : 0..MaxDays]

NoCall == [fn |-> None]

\* the rows of a direct call of add_financial_calculations: a 10.00 item in
\* lots of 0, 20 and 100 under every strategy
FinancialCalls ==
    [fn : {"add_financial_calculations"},
     primary_recommendation : Strategies \cup {None},
     selling_price : {Dollars(10)},
     cost_basis : {Dollars(4), Dollars(8)},
     quantity : {0, 20, 100},
     sale_through_rate : {30, 80},
     risk_score : {[num |-> k, den |-> 1] : k \in {39, 40, 59, 60, 65, 79, 80, 85}},
     reallocation_cost : {0, Dollars(50)},
     target_store_sell_through : {80}]

\* the arguments of a direct call of get_secondary_options
SecondaryCalls ==
    [fn : {"get_secondary_options"},
     risk_score : {[num |-> k, den |-> 1] : k \in {40, 81}},
     category : Range(Categories), can_reallocate : BOOLEAN, can_donate : BOOLEAN,
     primary_strategy : Strategies, days_remaining : 0..MaxDays]

\* sale_through_rate values of a directly scored row, in hundredths
RiskRates == {0, 30, 50, 100, 125}

\* the rows of a direct call of add_risk_calculations
RiskCalls ==
    UNION {[fn : {"add_risk_calculations"},
            shelf_life_days : {shelf},
            days_remaining : (0 - 1)..(shelf + MaxOverAge),
            sale_through_rate : RiskRates] : shelf \in {0, 7, MaxShelf}}

----------------------------------------------------------------------------
(* main.py: show_dashboard and process_data *)

Init ==
    /\ pc = "start"
    /\ \/ source = "Generate Sample Data" /\ raw \in GenRuns
       \/ source = "Upload CSV" /\ raw \in CsvFiles
    /\ df = <<>>
    /\ error = <<>>
    /\ calls = <<>>
    /\ call = NoCall
    /\ ret = None

\* df = generate_sample_data(num_items)
GenerateSampleData ==
    /\ pc = "start"
    /\ source = "Generate Sample Data"
    /\ df' = generate_sample_data(raw)
    /\ calls' = Append(calls, "generate_sample_data")
    /\ pc' = "loaded"
    /\ UNCHANGED <<source, raw, error, call, ret>>

\* df = pd.read_csv(uploaded_file)
ReadCsv ==
    /\ pc = "start"
    /\ source = "Upload CSV"
    /\ df' = raw
    /\ calls' = Append(calls, "read_csv")
    /\ pc' = "read"
    /\ UNCHANGED <<source, raw, error, call, ret>>

\* df = validate_csv_data(df), inside the try of show_dashboard
ValidateCsvData ==
    /\ pc = "read"
    /\ IF missing_columns(df) # <<>>
       THEN /\ error' = <<"ValueError", missing_columns(df)>>
            /\ calls' = Append(calls, "validate_csv_data")
            /\ pc' = "failed"
            /\ UNCHANGED df
       ELSE LET derived == derive_fields(df)
            IN  /\ \E u1 \in [MaskOf(derived, below_cost) -> uniform_below_cost] :
                   LET fixed == fix_below_cost(derived, u1)
                   IN  \E u2 \in [MaskOf(fixed, margin_high) -> uniform_high] :
                       \E u3 \in [MaskOf(fixed, margin_low) -> uniform_low] :
                          df' = ensure_realistic_financials(derived, u1, u2, u3)
                /\ calls' = calls \o <<"validate_csv_data", "ensure_realistic_financials">>
                /\ pc' = "loaded"
                /\ UNCHANGED error
    /\ UNCHANGED <<source, raw, call, ret>>

\* process_data, first statement
AddRiskCalculations ==
    /\ pc = "loaded"
    /\ df' = add_risk_calculations(df)
    /\ calls' = Append(calls, "add_risk_calculations")
    /\ pc' = "scored"
    /\ UNCHANGED <<source, raw, error, call, ret>>

AddDecisionLogic ==
    /\ pc = "scored"
    /\ df' = add_decision_logic(df)
    /\ calls' = Append(calls, "add_decision_logic")
    /\ pc' = "decided"
    /\ UNCHANGED <<source, raw, error, call, ret>>

AddReallocationDetails ==
    /\ pc = "decided"
    /\ df' = add_reallocation_details(df)
    /\ calls' = Append(calls, "add_reallocation_details")
    /\ pc' = "reallocated"
    /\ UNCHANGED <<source, raw, error, call, ret>>

AddFinancialCalculations ==
    /\ pc = "reallocated"
    /\ df' = add_financial_calculations(df)
    /\ calls' = Append(calls, "add_financial_calculations")
    /\ pc' = "financed"
    /\ UNCHANGED <<source, raw, error, call, ret>>

Next ==
    \/ GenerateSampleData
    \/ ReadCsv
    \/ ValidateCsvData
    \/ AddRiskCalculations
    \/ AddDecisionLogic
    \/ AddReallocationDetails
    \/ AddFinancialCalculations

Spec == Init /\ [][Next]_vars

----------------------------------------------------------------------------
(* Direct calls of the risk scorer *)

InitRisk ==
    /\ pc = "direct"
    /\ source = None
    /\ raw = <<>>
    /\ df = <<>>
    /\ error = <<>>
    /\ calls = <<>>
    /\ call \in RiskCalls
    /\ ret = None

\* add_risk_calculations on the one-row frame of the call; ret is the scored row
InvokeRiskCalculations ==
    /\ pc = "direct"
    /\ call.fn = "add_risk_calculations"
    /\ calls = <<>>
    /\ ret' = add_risk_calculations(<<call>>)[1]
    /\ calls' = Append(calls, "add_risk_calculations")
    /\ UNCHANGED <<pc, source, raw, df, error, call>>

\* the same item is scored again one day later
RescoreNextDay ==
    /\ pc = "direct"
    /\ call.fn = "add_risk_calculations"
    /\ calls # <<>>
    /\ call.days_remaining > 0
    /\ call' = [call EXCEPT !.days_remaining = @ - 1]
    /\ ret' = add_risk_calculations(<<call'>>)[1]
    /\ calls' = Append(calls, "add_risk_calculations")
    /\ UNCHANGED <<pc, source, raw, df, error>>

NextRisk == InvokeRiskCalculations \/ RescoreNextDay

SpecRisk == InitRisk /\ [][NextRisk]_vars

----------------------------------------------------------------------------
(* Direct calls of the secondary options *)

InitSecondary ==
    /\ pc = "direct"
    /\ source = None
    /\ raw = <<>>
    /\ df = <<>>
    /\ error = <<>>
    /\ calls = <<>>
    /\ call \in SecondaryCalls
    /\ ret = None

InvokeSecondaryOptions ==
    /\ pc = "direct"
    /\ call.fn = "get_secondary_options"
    /\ calls = <<>>
    /\ ret' = get_secondary_options(call.risk_score, call.category, call.can_reallocate,
                                    call.can_donate, call.primary_strategy,
                                    call.days_remaining)
    /\ calls' = Append(calls, "get_secondary_options")
    /\ UNCHANGED <<pc, source, raw, df, error, call>>

NextSecondary == InvokeSecondaryOptions

SpecSecondary == InitSecondary /\ [][NextSecondary]_vars

----------------------------------------------------------------------------
(* Direct calls of the financial calculations *)

InitRecovery ==
    /\ pc = "direct"
    /\ source = None
    /\ raw = <<>>
    /\ df = <<>>
    /\ error = <<>>
    /\ calls = <<>>
    /\ call \in FinancialCalls
    /\ ret = None

\* add_financial_calculations on the one-row frame of the call; ret is the row
\* with its financial columns
InvokeFinancialCalculations ==
    /\ pc = "direct"
    /\ call.fn = "add_financial_calculations"
    /\ calls = <<>>
    /\ ret' = add_financial_calculations(<<call>>)[1]
    /\ calls' = Append(calls, "add_financial_calculations")
    /\ UNCHANGED <<pc, source, raw, df, error, call>>

NextRecovery == InvokeFinancialCalculations

SpecRecovery == InitRecovery /\ [][NextRecovery]_vars

\* the pipeline and the direct calls side by side
SpecFinancials == (Init \/ InitRecovery) /\ [][Next \/ NextRecovery]_vars

----------------------------------------------------------------------------
(* Direct calls of the decision function *)

InitDecision ==
    /\ pc = "direct"
    /\ source = None
    /\ raw = <<>>
    /\ df = <<>>
    /\ error = <<>>
    /\ calls = <<>>
    /\ call \in DecisionCalls
    /\ ret = None

InvokePrimaryStrategy ==
    /\ pc = "direct"
    /\ call.fn = "get_primary_strategy"
    /\ ret = None
    /\ ret' = get_primary_strategy(call.risk_score, call.category, call.can_reallocate,
                                   call.can_donate, call.days_remaining)
    /\ calls' = Append(calls, "get_primary_strategy")
    /\ UNCHANGED <<pc, source, raw, df, error, call>>

NextDecision == InvokePrimaryStrategy

SpecDecision == InitDecision /\ [][NextDecision]_vars

----------------------------------------------------------------------------
(* Uploaded files that exercise the financial normalization: prices on both *)
(* sides of the 10% and 70% margins, on and off whole cents                 *)

\* cost_basis of 0.01, 1.00 and 2.99 dollars
FinCosts == {100, 10000, 29900}

\* selling prices from 0.01 to 10.00 dollars
FinPrices == {100, 9000, 11110, 11140, 15000, 33340, 99660, 100000}

FinRow(k, cb, sp) ==
    [sku |-> <<"SKU", k>>, product_name |-> "Item", category |-> "Perishables",
     quantity |-> MaxQuantity, cost_basis |-> cb, selling_price |-> sp,
     shelf_life_days |-> MaxShelf, current_age_days |-> 0, sale_through_rate |-> 50,
     store_location |-> "Store_B"]

\* files of one row and of two rows
FinFiles ==
    {<<FinRow(1, cb, sp)>> : cb \in FinCosts, sp \in FinPrices}
    \cup {<<FinRow(1, cb1, sp1), FinRow(2, cb2, sp2)>> :
            cb1 \in FinCosts, sp1 \in FinPrices, cb2 \in FinCosts, sp2 \in FinPrices}

InitFin ==
    /\ pc = "start"
    /\ \/ source = "Generate Sample Data" /\ raw \in GenRuns
       \/ source = "Upload CSV" /\ raw \in FinFiles
    /\ df = <<>>
    /\ error = <<>>
    /\ calls = <<>>
    /\ call = NoCall
    /\ ret = None

SpecFin == InitFin /\ [][Next]_vars

----------------------------------------------------------------------------
(* Uploads of two mixed rows *)

InitBatch ==
    /\ pc = "start"
    /\ \/ source = "Generate Sample Data" /\ raw \in GenRuns
       \/ source = "Upload CSV" /\ raw \in BatchFiles
    /\ df = <<>>
    /\ error = <<>>
    /\ calls = <<>>
    /\ call = NoCall
    /\ ret = None

SpecBatch == InitBatch /\ [][Next]_vars

----------------------------------------------------------------------------
(* Properties *)

Loaded == pc \in {"loaded", "scored", "decided", "reallocated", "financed"}

\* the entries of a joined secondary_options string
Entries(secondary_options) == Range(secondary_options) \ {None}

\* The documented primary-strategy table, one record per row in order of
\* precedence: whether the row matches, and the strategy it gives.
DecisionRows(risk_level, category, can_reallocate, can_donate, days_remaining) ==
    LET fresh == category = "Fresh Food"
    IN  <<[match |-> risk_level = "CRITICAL" /\ fresh /\ can_donate /\ days_remaining >= 1,
           to |-> "DONATE"],
          [match |-> risk_level = "CRITICAL" /\ fresh, to |-> "LIQUIDATE"],
          [match |-> risk_level = "CRITICAL", to |-> "LIQUIDATE"],
          [match |-> risk_level = "HIGH" /\ fresh /\ can_donate /\ days_remaining >= 2,
           to |-> "DONATE"],
          [match |-> risk_level = "HIGH" /\ fresh /\ can_reallocate /\ days_remaining >= 3,
           to |-> "REALLOCATE+MARKDOWN"],
          [match |-> risk_level = "HIGH" /\ fresh, to |-> "MARKDOWN"],
          [match |-> risk_level = "HIGH" /\ can_reallocate /\ days_remaining >= 4,
           to |-> "REALLOCATE+MARKDOWN"],
          [match |-> risk_level = "HIGH" /\ can_reallocate, to |-> "REALLOCATE"],
          [match |-> risk_level = "HIGH", to |-> "MARKDOWN"],
          [match |-> risk_level = "MEDIUM" /\ can_reallocate /\ days_remaining >= 5,
           to |-> "REALLOCATE+MARKDOWN"],
          [match |-> risk_level = "MEDIUM" /\ can_reallocate, to |-> "REALLOCATE"],
          [match |-> risk_level = "MEDIUM" /\ can_donate
                     /\ category \in {"Fresh Food", "Perishables"} /\ days_remaining >= 3,
           to |-> "DONATE"],
          [match |-> risk_level = "MEDIUM", to |-> "MARKDOWN"],
          [match |-> risk_level = "LOW", to |-> "NO ACTION"]>>

\* the strategy of the first matching row, None when no row matches
DecisionTable(risk_level, category, can_reallocate, can_donate, days_remaining) ==
    LET rows == DecisionRows(risk_level, category, can_reallocate, can_donate, days_remaining)
        hits == {k \in DOMAIN rows : rows[k].match}
    IN  IF hits = {} THEN None
        ELSE rows[CHOOSE k \in hits : \A j \in hits : k <= j].to

\* the documented accepted-category set of a store
AcceptedBy(store) ==
    CASE store = "Store_A" -> {"Fresh Food", "Perishables", "General Goods"}
      [] store = "Store_B" -> {"Perishables", "General Goods"}
      [] store = "Store_C" -> {"General Goods"}

\* the documented candidate stores of a row
Candidates(row) ==
    {st \in Range(Stores) : st # row.store_location /\ row.category \in AcceptedBy(st)}

\* the first candidate in the order Store_A, Store_B, Store_C
FirstCandidate(row) ==
    Stores[CHOOSE k \in DOMAIN Stores :
             /\ Stores[k] \in Candidates(row)
             /\ \A j \in DOMAIN Stores : Stores[j] \in Candidates(row) => k <= j]

\* C1: after scoreRisk, applyDecisionLogic and matchReallocation, no item's
\* final primary_recommendation is an entry of its secondary_options.
C1_SecondaryExcludesPrimary ==
    pc = "reallocated" =>
        \A i \in DOMAIN df : df[i].primary_recommendation \notin Entries(df[i].secondary_options)

\* C1 witness: an item whose primary was changed to REALLOCATE by the second
\* pass and whose secondary options list other strategies.
C1_Witness ==
    /\ pc = "reallocated"
    /\ \E i \in DOMAIN df :
          /\ df[i].primary_recommendation = "REALLOCATE"
          /\ df[i].secondary_options = <<"MARKDOWN", "LIQUIDATE">>

\* C2: after matchReallocation every item's secondary_options equals the
\* secondary-options rule evaluated on the updated can_reallocate and the
\* recomputed primary.
C2_SecondaryRecomputed ==
    pc = "reallocated" =>
        \A i \in DOMAIN df :
            df[i].secondary_options =
                get_secondary_options(df[i].risk_score, df[i].category, df[i].can_reallocate,
                                      df[i].can_donate, df[i].primary_recommendation,
                                      df[i].days_remaining)

\* C3: after the first pass every item has can_reallocate = false and a
\* primary that is neither REALLOCATE nor REALLOCATE+MARKDOWN; after
\* matchReallocation can_reallocate is the matcher's verdict and the primary
\* is the decision table evaluated with it.
C3_TwoPass ==
    /\ pc = "decided" =>
          \A i \in DOMAIN df :
              /\ df[i].can_reallocate = FALSE
              /\ df[i].primary_recommendation \notin {"REALLOCATE", "REALLOCATE+MARKDOWN"}
    /\ pc = "reallocated" =>
          \A i \in DOMAIN df :
              /\ df[i].can_reallocate = check_reallocation_viability(df[i])[1]
              /\ df[i].primary_recommendation =
                    DecisionTable(get_risk_level_from_score(df[i].risk_score), df[i].category,
                                  df[i].can_reallocate, df[i].can_donate, df[i].days_remaining)

\* C3 witness: an item the second pass moved to the combined strategy.
C3_Witness ==
    /\ pc = "reallocated"
    /\ \E i \in DOMAIN df :
          df[i].can_reallocate /\ df[i].primary_recommendation = "REALLOCATE+MARKDOWN"

C5_DecisionTotality ==
    pc \in {"decided", "reallocated"} =>
        \A i \in DOMAIN df : df[i].primary_recommendation \in Strategies

\* C5 witness: a LOW item, decided by the last branch, after the recomputation.
C5_Witness ==
    /\ pc = "reallocated"
    /\ \E i \in DOMAIN df :
          df[i].risk_level = "LOW" /\ df[i].primary_recommendation = "NO ACTION"

\* C6: on every ingestion path days_remaining is max(0, shelf_life_days -
\* current_age_days), whatever the input supplied, hence never negative.
C6_DaysRemainingClamped ==
    Loaded =>
        \A i \in DOMAIN df :
            /\ df[i].days_remaining = Max(0, df[i].shelf_life_days - df[i].current_age_days)
            /\ df[i].days_remaining >= 0

\* C7: after ensure_realistic_financials every item with cost_basis > 0 has
\* selling_price > cost_basis and a margin within [0.10, 0.70].
C7_FinancialInvariant ==
    (Loaded /\ "ensure_realistic_financials" \in Range(calls)) =>
        \A i \in DOMAIN df :
            df[i].cost_basis > 0 =>
                /\ df[i].selling_price > df[i].cost_basis
                /\ 10 * (df[i].selling_price - df[i].cost_basis) >= df[i].selling_price
                /\ 10 * (df[i].selling_price - df[i].cost_basis) <= 7 * df[i].selling_price

\* C8: on both data paths ensure_realistic_financials is applied to the batch
\* before scoreRisk runs on it.
C8_NormalizedBeforeScoring ==
    \A k \in DOMAIN calls :
        calls[k] = "add_risk_calculations" =>
            \E j \in 1..(k - 1) : calls[j] = "ensure_realistic_financials"

C10_TargetStore ==
    pc = "reallocated" =>
        \A i \in DOMAIN df :
            /\ find_best_reallocation_store(df[i]) =
                  IF Candidates(df[i]) = {} THEN None ELSE FirstCandidate(df[i])
            /\ Candidates(df[i]) = {} => ~df[i].can_reallocate
            /\ df[i].can_reallocate => df[i].reallocation_store = FirstCandidate(df[i])

\* C10 witness: an item of Store_A, whose first candidate is Store_B, is sent
\* there.
C10_Witness ==
    /\ pc = "reallocated"
    /\ \E i \in DOMAIN df :
          /\ df[i].store_location = "Store_A"
          /\ df[i].can_reallocate
          /\ df[i].reallocation_store = "Store_B"

\* the documented distance factor of two different known stores, in tenths
DistanceTable(a, b) ==
    CASE {a, b} = {"Store_A", "Store_B"} -> 12
      [] {a, b} = {"Store_A", "Store_C"} -> 15
      [] {a, b} = {"Store_B", "Store_C"} -> 13

\* the documented category factor, in tenths
CategoryTable(category) ==
    CASE category = "Fresh Food" -> 15
      [] category = "Perishables" -> 12
      [] category = "General Goods" -> 10

\* C11: for a viable reallocation between known stores, reallocation_cost is
\* 0.50 x distance_factor x category_factor x quantity with the documented
\* symmetric factors; the cost of a viable reallocation is strictly positive
\* and is the same for the move in the opposite direction.
C11_TransportCost ==
    pc = "reallocated" =>
        \A i \in DOMAIN df :
            df[i].can_reallocate =>
                /\ df[i].store_location \in Range(Stores) =>
                      100 * df[i].reallocation_cost =
                          (Dollars(1) \div 2)
                            * DistanceTable(df[i].store_location, df[i].reallocation_store)
                            * CategoryTable(df[i].category) * df[i].quantity
                /\ df[i].reallocation_cost > 0
                /\ calculate_reallocation_cost(
                      [df[i] EXCEPT !.store_location = df[i].reallocation_store],
                      df[i].store_location) = df[i].reallocation_cost

\* C11 witness: Fresh Food moved from Store_C to Store_A, at 0.50 x 1.5 x 1.5
\* a unit.
C11_Witness ==
    /\ pc = "reallocated"
    /\ \E i \in DOMAIN df :
          /\ df[i].can_reallocate
          /\ df[i].category = "Fresh Food"
          /\ df[i].store_location = "Store_C"
          /\ df[i].reallocation_store = "Store_A"
          /\ df[i].reallocation_cost = 11250 * df[i].quantity

TierRank(level) ==
    CASE level = "LOW" -> 1
      [] level = "MEDIUM" -> 2
      [] level = "HIGH" -> 3
      [] level = "CRITICAL" -> 4

\* C15: with sale_through_rate and shelf_life_days > 0 fixed, when
\* days_remaining decreases the risk_score does not decrease and the risk tier
\* does not move to a lower tier.
C15_RiskMonotone ==
    [][(/\ call.fn = "add_risk_calculations"
        /\ calls # <<>>
        /\ call'.shelf_life_days = call.shelf_life_days
        /\ call'.sale_through_rate = call.sale_through_rate
        /\ call.shelf_life_days > 0
        /\ call'.days_remaining < call.days_remaining)
       => /\ ret.risk_score.num * ret'.risk_score.den
                <= ret'.risk_score.num * ret.risk_score.den
          /\ TierRank(ret.risk_level) <= TierRank(ret'.risk_level)]_vars

\* C15 witness: an item of positive shelf life scored on three successive days
\* and CRITICAL on the last one, with no day left.
C15_Witness ==
    /\ call.fn = "add_risk_calculations"
    /\ Len(calls) >= 3
    /\ call.shelf_life_days > 0
    /\ call.days_remaining = 0
    /\ call.sale_through_rate = 30
    /\ ret.risk_level = "CRITICAL"

\* the tiers whose documented score interval contains the score
TiersOf(score) ==
    {t \in {"LOW", "MEDIUM", "HIGH", "CRITICAL"} :
        CASE t = "LOW" -> score.num <= 40 * score.den
          [] t = "MEDIUM" -> 40 * score.den < score.num /\ score.num <= 60 * score.den
          [] t = "HIGH" -> 60 * score.den < score.num /\ score.num <= 80 * score.den
          [] t = "CRITICAL" -> 80 * score.den < score.num}

\* the documented time to action of a tier
TimeTable(level) ==
    CASE level = "LOW" -> "7+ days"
      [] level = "MEDIUM" -> "3-7 days"
      [] level = "HIGH" -> "1-3 days"
      [] level = "CRITICAL" -> "0-24 hours"

Financed == call.fn = "add_financial_calculations" /\ calls # <<>>

\* the documented markdown percentage of a score
MarkdownTable(score) ==
    CASE score.num >= 80 * score.den -> 30
      [] 60 * score.den <= score.num /\ score.num < 80 * score.den -> 25
      [] 40 * score.den <= score.num /\ score.num < 60 * score.den -> 15
      [] score.num < 40 * score.den -> 0

RecoveryFormula(row) ==
    LET recovery == row.expected_recovery
        strategy == row.primary_recommendation
        price == row.selling_price \div 100
        quantity == row.quantity
        sell_through == row.target_store_sell_through
        markdown == 100 - MarkdownTable(row.risk_score)
    IN  /\ row.selling_price = 100 * price
        /\ strategy = "NO ACTION" =>
              recovery = 4 * price * quantity * (9 * row.sale_through_rate + 100)
        /\ strategy = "REALLOCATE" =>
              recovery = 38 * price * quantity * sell_through - 40 * row.reallocation_cost
        /\ strategy = "MARKDOWN" => recovery = 40 * price * quantity * markdown
        /\ strategy = "DONATE" => 10 * recovery = 3 * 40 * row.cost_basis * quantity
        /\ strategy = "LIQUIDATE" => recovery = 1200 * price * quantity
        /\ strategy = "REALLOCATE+MARKDOWN" =>
              5 * recovery = 133 * price * quantity * sell_through
                               - 140 * row.reallocation_cost
                               + 60 * price * quantity * markdown

TotalCost(row) ==
    CASE row.primary_recommendation = "REALLOCATE" ->
            40 * row.cost_basis * row.quantity + 40 * row.reallocation_cost
      [] row.primary_recommendation = "REALLOCATE+MARKDOWN" ->
            40 * row.cost_basis * row.quantity + (7 * 40 * row.reallocation_cost) \div 10
      [] OTHER -> 40 * row.cost_basis * row.quantity

\* C18: margin_impact = expected_recovery - total_cost, where total_cost is
\* cost_basis x quantity plus the full reallocation_cost under REALLOCATE, plus
\* 0.7 x reallocation_cost under REALLOCATE+MARKDOWN, and plus nothing under
\* every other strategy, whatever the item's reallocation_cost.
C18_MarginImpact ==
    Financed => ret.margin_impact = ret.expected_recovery - TotalCost(ret)

\* C18 witness: a liquidated lot with a reallocation_cost of 50 on the row,
\* whose margin is the recovery less cost_basis x quantity only.
C18_Witness ==
    /\ Financed
    /\ ret.primary_recommendation = "LIQUIDATE"
    /\ ret.reallocation_cost = Dollars(50)
    /\ ret.quantity = 100
    /\ ret.cost_basis = Dollars(4)
    /\ ret.margin_impact = 40 * Dollars(300) - 40 * Dollars(400)

\* C19: profit_margin_pct is 0 when expected_recovery is 0 and otherwise
\* (expected_recovery - total_cost) / expected_recovery x 100 with the
\* total_cost of margin_impact, so profit_margin_pct x expected_recovery =
\* margin_impact x 100 whenever expected_recovery is not 0.
C19_ProfitMargin ==
    Financed =>
        IF ret.expected_recovery = 0
        THEN ret.profit_margin_pct.num = 0 /\ ret.profit_margin_pct.den # 0
        ELSE /\ ret.profit_margin_pct.den = ret.expected_recovery
             /\ ret.profit_margin_pct.num = ret.expected_recovery - TotalCost(ret)
             /\ ret.profit_margin_pct.num = ret.margin_impact

\* C19 witness: an empty lot, whose recovery is 0 while its cost is not asked
\* for, has a margin of 0 percent.
C19_Witness ==
    /\ Financed
    /\ ret.quantity = 0
    /\ ret.primary_recommendation = "REALLOCATE"
    /\ ret.reallocation_cost = 0
    /\ ret.expected_recovery = 0
    /\ ret.profit_margin_pct = [num |-> 0, den |-> 1]

\* the mandatory fields the uploaded file does not have
MissingFields == Range(required_columns) \ Columns(raw)

InputFields ==
    {"sku", "category", "store_location", "quantity", "cost_basis", "selling_price",
     "shelf_life_days", "current_age_days", "days_remaining", "sale_through_rate"}

\* the documented output fields of the stage that ends in the given position
StageOutputs(stage) ==
    CASE stage = "scored" -> {"risk_score", "risk_level", "time_to_action"}
      [] stage = "decided" ->
            {"can_donate", "can_reallocate", "primary_recommendation", "secondary_options"}
      [] stage = "reallocated" ->
            {"can_reallocate", "reallocation_store", "reallocation_cost",
             "target_store_sell_through", "primary_recommendation", "secondary_options"}
      [] stage = "financed" ->
            {"expected_recovery", "potential_loss", "margin_impact", "profit_margin_pct",
             "markdown_percentage"}

\* the fields of a row that a step added or changed
Written(before, after) ==
    {c \in DOMAIN after : c \notin DOMAIN before \/ after[c] # before[c]}

\* C22: each of the four pipeline stages returns the same items in the same
\* order, adds or deletes none, keeps every input field, and writes only its
\* own listed output fields (the second pass rewriting the recommendation);
\* the financial stage changes no field of the earlier stages.
C22_Frame ==
    [][(pc = "loaded" \/ pc = "scored" \/ pc = "decided" \/ pc = "reallocated") =>
          (/\ Len(df') = Len(df)
           /\ \A i \in DOMAIN df :
                 /\ DOMAIN df[i] \subseteq DOMAIN df'[i]
                 /\ \A c \in InputFields : df'[i][c] = df[i][c]
                 /\ Written(df[i], df'[i]) \subseteq StageOutputs(pc')
                 /\ pc' = "financed" => (\A c \in DOMAIN df[i] : df'[i][c] = df[i][c]))]_vars

\* C22 witness: a batch of two different items has passed the four stages and
\* still holds the two items, in the order of the file.
C22_Witness ==
    /\ pc = "financed"
    /\ Len(df) = 2
    /\ df[1].sku = <<"SKU", 1>>
    /\ df[2].sku = <<"SKU", 2>>
    /\ df[1].category # df[2].category
    /\ df[1].primary_recommendation # df[2].primary_recommendation
    /\ \A i \in DOMAIN df : \A c \in DOMAIN raw[i] : df[i][c] = raw[i][c]

\* the fields the four stages write
PipelineOutputs ==
    UNION {StageOutputs(stage) : stage \in {"scored", "decided", "reallocated", "financed"}}

\* the item as it entered the pipeline
AsLoaded(row) == Restrict(row, DOMAIN row \ PipelineOutputs)

\* C23: the pipeline gives each item of a batch the result it gives that item
\* run alone, whatever the other items of the batch and their order; so the
\* computed fields depend on the item's own input fields only.
C23_ItemIndependence ==
    pc = "financed" =>
        \A i \in DOMAIN df : df[i] = process_data(<<AsLoaded(df[i])>>)[1]

\* C23 witness: a two-item batch in which one item is reallocated and the
\* other, listed first, is not reallocatable.
C23_Witness ==
    /\ pc = "financed"
    /\ Len(df) = 2
    /\ ~df[1].can_reallocate
    /\ df[1].primary_recommendation = "LIQUIDATE"
    /\ df[2].can_reallocate
    /\ df[2].primary_recommendation = "REALLOCATE+MARKDOWN"

\* C24: whenever the final primary_recommendation of a Perishables or General
\* Goods item is MARKDOWN or REALLOCATE+MARKDOWN, markdown_percentage is 25 if
\* its risk_level is HIGH and 15 if it is MEDIUM, the tier boundaries 60 and
\* 80 included.
C24_MarkdownFollowsTier ==
    pc = "financed" =>
        \A i \in DOMAIN df :
            (/\ df[i].category \in {"Perishables", "General Goods"}
             /\ df[i].primary_recommendation \in {"MARKDOWN", "REALLOCATE+MARKDOWN"}) =>
                /\ df[i].risk_level = "HIGH" => df[i].markdown_percentage = 25
                /\ df[i].risk_level = "MEDIUM" => df[i].markdown_percentage = 15

\* check_reallocation_viability of reallocation.py with lines 15-17, the Fresh
\* Food check, taken out
ViabilityWithoutFreshCheck(row) ==
    IF row.days_remaining < 3 THEN <<FALSE, None, 0, 0>>
    ELSE IF row.quantity < 5 THEN <<FALSE, None, 0, 0>>
    ELSE LET best_store == find_best_reallocation_store(row)
         IN  IF best_store = None THEN <<FALSE, None, 0, 0>>
             ELSE <<TRUE, best_store,
                    calculate_reallocation_cost(row, best_store),
                    get_store_sell_through_rate(row.category, best_store)>>

\* C25: for every item the result of check_reallocation_viability is the same
\* with and without the Fresh Food 'days_remaining >= 2' check, which the
\* 'days_remaining >= 3' gate makes unreachable; a Fresh Food item is
\* reallocatable only with 3 days or more.
C25_FreshCheckUnreachable ==
    /\ Loaded =>
          \A i \in DOMAIN df :
              check_reallocation_viability(df[i]) = ViabilityWithoutFreshCheck(df[i])
    /\ pc \in {"reallocated", "financed"} =>
          \A i \in DOMAIN df :
              /\ <<df[i].can_reallocate, df[i].reallocation_store, df[i].reallocation_cost,
                   df[i].target_store_sell_through>> = ViabilityWithoutFreshCheck(df[i])
              /\ (df[i].category = "Fresh Food" /\ df[i].can_reallocate) =>
                    df[i].days_remaining >= 3

\* C25 witness: a full lot of Fresh Food with one day left, which the check
\* would reject, was already rejected by the transport gate.
C25_Witness ==
    /\ pc = "reallocated"
    /\ \E i \in DOMAIN df :
          /\ df[i].category = "Fresh Food"
          /\ df[i].days_remaining = 1
          /\ df[i].quantity >= 5
          /\ df[i].store_location = "Store_B"
          /\ ~df[i].can_reallocate

\* the sell-through table values of Store_A and Store_B, in hundredths
SellThroughTable(store, category) ==
    CASE store = "Store_A" /\ category = "Fresh Food" -> 85
      [] store = "Store_A" /\ category = "Perishables" -> 80
      [] store = "Store_A" /\ category = "General Goods" -> 75
      [] store = "Store_B" /\ category = "Fresh Food" -> 70
      [] store = "Store_B" /\ category = "Perishables" -> 75
      [] store = "Store_B" /\ category = "General Goods" -> 80

\* C26: whenever can_reallocate is true the reallocation_store differs from the
\* item's store_location and accepts its category; for items located in one of
\* the three known stores Store_C is never the target, a Fresh Food item in
\* Store_A is never reallocatable, and target_store_sell_through is a Store_A
\* or Store_B table value, never the 0.70 default.
C26_ReallocationTarget ==
    pc \in {"reallocated", "financed"} =>
        \A i \in DOMAIN df :
            /\ df[i].can_reallocate =>
                  /\ df[i].reallocation_store \in Range(Stores)
                  /\ df[i].reallocation_store # df[i].store_location
                  /\ df[i].category \in AcceptedBy(df[i].reallocation_store)
            /\ df[i].store_location \in Range(Stores) =>
                  /\ df[i].reallocation_store # "Store_C"
                  /\ (df[i].category = "Fresh Food" /\ df[i].store_location = "Store_A") =>
                        ~df[i].can_reallocate
                  /\ df[i].can_reallocate =>
                        /\ df[i].reallocation_store \in {"Store_A", "Store_B"}
                        /\ df[i].target_store_sell_through =
                              SellThroughTable(df[i].reallocation_store, df[i].category)
                        /\ df[i].target_store_sell_through # 70

\* C26 witness: General Goods located in Store_A go to Store_B at its table
\* value 0.80, although Store_C accepts them too.
C26_Witness ==
    /\ pc = "reallocated"
    /\ \E i \in DOMAIN df :
          /\ df[i].can_reallocate
          /\ df[i].category = "General Goods"
          /\ df[i].store_location = "Store_A"
          /\ df[i].reallocation_store = "Store_B"
          /\ df[i].target_store_sell_through = 80

\* C27: after the full pipeline a primary_recommendation of REALLOCATE or
\* REALLOCATE+MARKDOWN implies can_reallocate, a reallocation_store,
\* reallocation_cost > 0, quantity >= 5 and days_remaining >= 3; a
\* primary_recommendation of DONATE implies can_donate, that is category Fresh
\* Food or Perishables, days_remaining >= 1 and cost_basis >= 1.0.
C27_PrimaryImplications ==
    pc \in {"reallocated", "financed"} =>
        \A i \in DOMAIN df :
            /\ df[i].primary_recommendation \in {"REALLOCATE", "REALLOCATE+MARKDOWN"} =>
                  /\ df[i].can_reallocate
                  /\ df[i].reallocation_store \in Range(Stores)
                  /\ df[i].reallocation_cost > 0
                  /\ df[i].quantity >= 5
                  /\ df[i].days_remaining >= 3
            /\ df[i].primary_recommendation = "DONATE" =>
                  /\ df[i].can_donate
                  /\ df[i].category \in {"Fresh Food", "Perishables"}
                  /\ df[i].days_remaining >= 1
                  /\ df[i].cost_basis >= Dollars(1)

\* C27 witness: a lot of exactly 5 units with exactly 3 days left is
\* reallocated.
C27_Witness ==
    /\ pc = "financed"
    /\ \E i \in DOMAIN df :
          /\ df[i].primary_recommendation = "REALLOCATE"
          /\ df[i].quantity = 5
          /\ df[i].days_remaining = 3
          /\ df[i].reallocation_cost > 0

\* position of a strategy in the order REALLOCATE, DONATE, MARKDOWN, LIQUIDATE
OptionRank(option) ==
    CASE option = "REALLOCATE" -> 1
      [] option = "DONATE" -> 2
      [] option = "MARKDOWN" -> 3
      [] option = "LIQUIDATE" -> 4
      [] OTHER -> 0

\* C28: for every primary strategy and every input secondary_options is not
\* 'None': it holds MARKDOWN or LIQUIDATE, and its entries are in the order
\* REALLOCATE, DONATE, MARKDOWN, LIQUIDATE without duplicates.
C28_SecondaryNeverNone ==
    (call.fn = "get_secondary_options" /\ calls # <<>>) =>
        /\ ret # <<None>>
        /\ Range(ret) \cap {"MARKDOWN", "LIQUIDATE"} # {}
        /\ \A j \in DOMAIN ret : OptionRank(ret[j]) > 0
        /\ \A j \in DOMAIN ret : \A k \in DOMAIN ret :
              j < k => OptionRank(ret[j]) < OptionRank(ret[k])

\* C28 witness: with MARKDOWN as the primary and neither reallocation nor
\* donation possible, the options are LIQUIDATE alone.
C28_Witness ==
    /\ call.fn = "get_secondary_options"
    /\ calls # <<>>
    /\ call.primary_strategy = "MARKDOWN"
    /\ ~call.can_reallocate
    /\ ~call.can_donate
    /\ ret = <<"LIQUIDATE">>

\* C29: after the full pipeline expected_recovery is non-negative for every
\* item with quantity >= 0, cost_basis > 0, selling_price > cost_basis and
\* sale_through_rate in [0,1], whatever its strategy, REALLOCATE and
\* REALLOCATE+MARKDOWN with their transport cost included.
C29_RecoveryNonNegative ==
    pc = "financed" =>
        \A i \in DOMAIN df :
            (/\ df[i].quantity >= 0
             /\ df[i].cost_basis > 0
             /\ df[i].selling_price > df[i].cost_basis
             /\ df[i].sale_through_rate >= 0
             /\ df[i].sale_through_rate <= 100) =>
                df[i].expected_recovery >= 0

\* the selling prices ensure_realistic_financials can give an uploaded item
\* that is the only row of its file
AlonePrices(row) ==
    LET d == derive_fields(<<row>>)
    IN  {ensure_realistic_financials(d, <<a>>, <<b>>, <<c>>)[1].selling_price :
            a \in uniform_below_cost, b \in uniform_high, c \in uniform_low}

\* C30: financial normalization treats items independently: whether and how
\* an item's selling_price is resampled depends on its own cost_basis and
\* selling_price only, so the price it has after validation within a batch is
\* one it can have after validation alone, whatever the other items are.
C30_NormalizationIndependent ==
    (source = "Upload CSV" /\ pc = "loaded") =>
        \A i \in DOMAIN df : df[i].selling_price \in AlonePrices(raw[i])

====
